---- MODULE Spec2Model ----
(***************************************************************************)
(* MilestoneProver::prove (consensus-proof/src/milestone.rs) as a state    *)
(* machine: one action per stage of the straight-line body, every panic    *)
(* site an outcome.  Hashes, signatures and the verified L1 read are       *)
(* abstract values with the interface the code relies on; unsigned 256-bit *)
(* integers are scaled down to UintBits bits, with the same operations.    *)
(***************************************************************************)
EXTENDS Integers, Sequences, FiniteSets, TLC

VARIABLES inputs, pc, milestone, response, validator_stakes, total_power,
          majority_power, expected_majority, i, executed, result

vars == <<inputs, pc, milestone, response, validator_stakes, total_power,
          majority_power, expected_majority, i, executed, result>>

---------------------------------------------------------------------------
(* Bounds *)

\* width of the unsigned integer standing for Uint<256, 4>
UintBits == 2
\* longest precommits / sigs / signers sequence of an input
MaxVotes == 2
\* longest address / power array returned by getEncodedValidatorInfo
MaxValidators == 2

UintMax == 2 ^ UintBits - 1

\* the powers the L1 contract may return: the small values of the range, the
\* first value whose double leaves the range, and the largest value
PowerValues == {0, 1, 2, 3, 2 ^ (UintBits - 1), UintMax}

SeqsUpTo(S, n) == UNION {[1 .. k -> S] : k \in 0 .. n}

---------------------------------------------------------------------------
(* Abstract values *)

Address == {"v1", "v2"}
\* what signature recovery yields when the signature is not over the digest
NoAddress == "0x"

TxDatas == {"txA", "txB", "txMalformed"}
TxHashes == {"hA", "hB", "hM"}

Headers == [number : {1, 2}, state_root : {"s1", "s2"}]

\* Header::hash_slow: content-addressed over all the header's fields
hash_slow(h) == <<h.number, h.state_root>>

HeaderHashes == {hash_slow(h) : h \in Headers}
L1Hashes == {"l1a", "l1b"}

\* a precommit is a well-formed vote message carrying a reference hash
Precommits == [ref : {"hA", "hB"}]

keccak256(p) == <<"keccak", p.ref>>

\* a signature is determined by who made it and the digest it was made over
Sigs == [by : Address, over : {keccak256(p) : p \in Precommits}]

NoMilestone == [end_block |-> 0, hash |-> <<0, "none">>]
NoResponse == [signers |-> <<>>, powers |-> <<>>, total_power |-> 0]
NoStakes == [a \in {} |-> 0]

\* the return value of getEncodedValidatorInfo: (address[], uint256[], uint256)
Responses ==
    [signers : SeqsUpTo(Address, MaxValidators),
     powers : SeqsUpTo(PowerValues, MaxValidators),
     total_power : PowerValues]

\* state_sketch_bytes, by what the verified read makes of it
SketchFailures == {"undecodable", "badproof", "reverts", "badreturn"}
Sketches ==
    [status : SketchFailures, ret : {NoResponse}]
        \cup [status : {"ok"}, ret : Responses]

---------------------------------------------------------------------------
(* Uint<256, 4> operations *)

add_mod(a, b, m) == IF m = 0 THEN 0 ELSE (a + b) % m

mul_mod(a, b, m) == IF m = 0 THEN 0 ELSE (a * b) % m

div_ceil(a, b) ==
    LET q == a \div b
        r == a % b
    IN IF r # 0 THEN q + 1 ELSE q

---------------------------------------------------------------------------
(* crate::helper: the three verification helpers prove calls *)

\* the canonical hash of a raw transaction payload
tx_data_hash(tx_data) ==
    CASE tx_data = "txA" -> "hA"
      [] tx_data = "txB" -> "hB"
      [] OTHER -> "hM"

\* the milestone message a payload carries
decode_milestone(tx_data) ==
    CASE tx_data = "txA" -> [end_block |-> 1, hash |-> <<1, "s1">>]
      [] tx_data = "txB" -> [end_block |-> 2, hash |-> <<2, "s2">>]
      [] OTHER -> NoMilestone

verify_tx_data(tx_data, tx_hash) ==
    IF tx_data_hash(tx_data) # tx_hash
    THEN [err |-> "DataIntegrityError", milestone |-> NoMilestone]
    ELSE IF tx_data = "txMalformed"
    THEN [err |-> "DecodeError", milestone |-> NoMilestone]
    ELSE [err |-> "none", milestone |-> decode_milestone(tx_data)]

verify_precommit(precommit, tx_hash) ==
    IF precommit.ref = tx_hash THEN "none" ELSE "PrecommitMismatchError"

\* the address a signature recovers to over a digest
recover_signer(sig, digest) ==
    IF sig.over = digest THEN sig.by ELSE NoAddress

verify_signature(sig, digest, signer) ==
    IF recover_signer(sig, digest) = signer
    THEN "none"
    ELSE "SignatureInvalidError"

---------------------------------------------------------------------------
(* MilestoneProver::prove, stage by stage *)

\* HeaderCheck, had it also held the claimed bor_block_hash against the header
HeaderCheckClaimedHash(m, in) ==
    IF m.end_block # in.bor_header.number THEN "HeaderMismatchError"
    ELSE IF m.hash # hash_slow(in.bor_header) THEN "HeaderMismatchError"
    ELSE IF in.bor_block_hash # hash_slow(in.bor_header)
    THEN "HeaderMismatchError"
    ELSE "none"

\* the two assert_eq! on the bor header
HeaderCheck(m, in) ==
    IF m.end_block # in.bor_header.number THEN "HeaderMismatchError"
    ELSE IF m.hash # hash_slow(in.bor_header) THEN "HeaderMismatchError"
    ELSE "none"

\* CountCheck without its second assertion
CountCheckFirstOnly(in) ==
    IF Len(in.precommits) # Len(in.sigs) THEN "LengthMismatchError"
    ELSE "none"

\* the two assert_eq! on the lengths
CountCheck(in) ==
    IF Len(in.precommits) # Len(in.sigs) THEN "LengthMismatchError"
    ELSE IF Len(in.sigs) # Len(in.signers) THEN "LengthMismatchError"
    ELSE "none"

\* deserialize, ClientExecutor::new, execute, abi_decode_returns: four unwraps
ReadValidatorInfo(sketch) ==
    CASE sketch.status = "undecodable" -> "SketchDecodeError"
      [] sketch.status = "badproof" -> "StateProofError"
      [] sketch.status = "reverts" -> "StateCallError"
      [] sketch.status = "badreturn" -> "StateCallError"
      [] OTHER -> "none"

\* for (i, signer) in signers.iter().enumerate() { insert(signer, powers[i]) }
\* after the first k entries; a later insert of the same key replaces the value
RECURSIVE StakesAfter(_, _, _)
StakesAfter(signers, powers, k) ==
    IF k = 0 THEN NoStakes
    ELSE LET before == StakesAfter(signers, powers, k - 1)
         IN [a \in DOMAIN before \cup {signers[k]} |->
                IF a = signers[k] THEN powers[k] ELSE before[a]]

\* powers[i] is an indexed read: it panics when powers is the shorter array
RegistryCheck(resp) ==
    IF Len(resp.powers) < Len(resp.signers) THEN "RegistryIndexOutOfBounds"
    ELSE "none"

BuildStakes(resp) == StakesAfter(resp.signers, resp.powers, Len(resp.signers))

\* VoteCheck with the precommit verified before the membership assertion
VoteCheckBindingFirst(in, stakes, idx) ==
    IF idx > Len(in.signers) THEN "VoteIndexOutOfBounds"
    ELSE IF verify_precommit(in.precommits[idx], in.tx_hash) # "none"
    THEN verify_precommit(in.precommits[idx], in.tx_hash)
    ELSE IF in.signers[idx] \notin DOMAIN stakes THEN "UnauthorizedSignerError"
    ELSE IF idx > Len(in.sigs) THEN "VoteIndexOutOfBounds"
    ELSE verify_signature(in.sigs[idx], keccak256(in.precommits[idx]),
                          in.signers[idx])

\* VoteCheck without the call of verify_precommit
VoteCheckNoBinding(in, stakes, idx) ==
    IF idx > Len(in.signers) THEN "VoteIndexOutOfBounds"
    ELSE IF in.signers[idx] \notin DOMAIN stakes THEN "UnauthorizedSignerError"
    ELSE IF idx > Len(in.sigs) THEN "VoteIndexOutOfBounds"
    ELSE verify_signature(in.sigs[idx], keccak256(in.precommits[idx]),
                          in.signers[idx])

\* the body of the vote loop at index idx (1-based here), up to the signature
VoteCheck(in, stakes, idx) ==
    IF idx > Len(in.signers) THEN "VoteIndexOutOfBounds"
    ELSE IF in.signers[idx] \notin DOMAIN stakes THEN "UnauthorizedSignerError"
    ELSE IF verify_precommit(in.precommits[idx], in.tx_hash) # "none"
    THEN verify_precommit(in.precommits[idx], in.tx_hash)
    ELSE IF idx > Len(in.sigs) THEN "VoteIndexOutOfBounds"
    ELSE verify_signature(in.sigs[idx], keccak256(in.precommits[idx]),
                          in.signers[idx])

\* let _ = majority_power.add_mod(stake, Uint::MAX): the sum is computed and
\* dropped; majority_power is an immutable binding
Accumulate(mp, stake) ==
    LET dropped == add_mod(mp, stake, UintMax)
    IN mp

ExpectedMajority(tp) == div_ceil(mul_mod(tp, 2, UintMax), 3)

\* QuorumNotReached with the comparison that lets equality through
QuorumNotReachedBelow(mp, em) == mp < em

QuorumNotReached(mp, em) == mp <= em

---------------------------------------------------------------------------
(* MilestoneProofInputs *)

MakeInputs(tx_data, tx_hash, votes, header, bor_hash, sketch, l1_hash) ==
    [tx_data |-> tx_data,
     tx_hash |-> tx_hash,
     precommits |-> votes.precommits,
     sigs |-> votes.sigs,
     signers |-> votes.signers,
     bor_header |-> header,
     bor_block_hash |-> bor_hash,
     state_sketch_bytes |-> sketch,
     l1_block_hash |-> l1_hash]

\* every choice of the three sequences, their lengths independent
AllVotes ==
    [precommits : SeqsUpTo(Precommits, MaxVotes),
     sigs : SeqsUpTo(Sigs, MaxVotes),
     signers : SeqsUpTo(Address, MaxVotes)]

\* the votes in which every signer signed a precommit for transaction hA
SignedVotes(signers) ==
    [precommits |-> [k \in DOMAIN signers |-> [ref |-> "hA"]],
     sigs |-> [k \in DOMAIN signers |->
                 [by |-> signers[k], over |-> keccak256([ref |-> "hA"])]],
     signers |-> signers]

ValidVotes == {SignedVotes(s) : s \in SeqsUpTo(Address, MaxVotes)}

NoVotes == [precommits |-> <<>>, sigs |-> <<>>, signers |-> <<>>]

OkSketch(signers, powers, total) ==
    [status |-> "ok",
     ret |-> [signers |-> signers, powers |-> powers, total_power |-> total]]

\* a validator set of v1 alone, and one of v1 and v2
FewSketches ==
    {OkSketch(<<"v1">>, <<UintMax>>, UintMax),
     OkSketch(<<"v1", "v2">>, <<1, 1>>, 1)}

GoodHeader == [number |-> 1, state_root |-> "s1"]

\* inputs that vary the transaction, the header and the pass-through hashes
FrontInputs ==
    \E d \in TxDatas, h \in TxHashes, hd \in Headers, bh \in HeaderHashes,
       lh \in L1Hashes,
       v \in {NoVotes, SignedVotes(<<"v1">>),
              [SignedVotes(<<"v1">>) EXCEPT !.sigs = <<>>]},
       sk \in [status : SketchFailures, ret : {NoResponse}] \cup FewSketches :
        inputs = MakeInputs(d, h, v, hd, bh, sk, lh)

\* inputs that vary the votes
VoteInputs ==
    \E v \in AllVotes, sk \in FewSketches :
        inputs = MakeInputs("txA", "hA", v, GoodHeader, hash_slow(GoodHeader),
                            sk, "l1a")

\* inputs that vary the validator set read from L1
PowerInputs ==
    \E v \in ValidVotes, sk \in Sketches :
        inputs = MakeInputs("txA", "hA", v, GoodHeader, hash_slow(GoodHeader),
                            sk, "l1a")

---------------------------------------------------------------------------
(* The state machine *)

Init ==
    /\ (FrontInputs \/ VoteInputs \/ PowerInputs)
    /\ pc = "tx"
    /\ milestone = NoMilestone
    /\ response = NoResponse
    /\ validator_stakes = NoStakes
    /\ total_power = 0
    /\ majority_power = 0
    /\ expected_majority = 0
    /\ i = 0
    /\ executed = <<>>
    /\ result = "running"

\* a panic: the run ends with the failure of the stage that raised it
Abort(kind) ==
    /\ result' = kind
    /\ pc' = "done"

\* verify_tx_data
VerifyTxData ==
    /\ pc = "tx"
    /\ executed' = Append(executed, "tx")
    /\ LET r == verify_tx_data(inputs.tx_data, inputs.tx_hash)
       IN IF r.err # "none"
          THEN Abort(r.err) /\ UNCHANGED milestone
          ELSE milestone' = r.milestone /\ pc' = "header" /\ UNCHANGED result
    /\ UNCHANGED <<inputs, response, validator_stakes, total_power,
                   majority_power, expected_majority, i>>

\* the header assertions
VerifyHeader ==
    /\ pc = "header"
    /\ executed' = Append(executed, "header")
    /\ LET e == HeaderCheck(milestone, inputs)
       IN IF e # "none"
          THEN Abort(e)
          ELSE pc' = "count" /\ UNCHANGED result
    /\ UNCHANGED <<inputs, milestone, response, validator_stakes, total_power,
                   majority_power, expected_majority, i>>

\* the length assertions
VerifyCounts ==
    /\ pc = "count"
    /\ executed' = Append(executed, "count")
    /\ LET e == CountCheck(inputs)
       IN IF e # "none"
          THEN Abort(e)
          ELSE pc' = "state" /\ UNCHANGED result
    /\ UNCHANGED <<inputs, milestone, response, validator_stakes, total_power,
                   majority_power, expected_majority, i>>

\* the verified read of getEncodedValidatorInfo
ReadState ==
    /\ pc = "state"
    /\ executed' = Append(executed, "state")
    /\ LET e == ReadValidatorInfo(inputs.state_sketch_bytes)
       IN IF e # "none"
          THEN Abort(e) /\ UNCHANGED <<response, total_power>>
          ELSE /\ response' = inputs.state_sketch_bytes.ret
               /\ total_power' = inputs.state_sketch_bytes.ret.total_power
               /\ pc' = "registry"
               /\ UNCHANGED result
    /\ UNCHANGED <<inputs, milestone, validator_stakes, majority_power,
                   expected_majority, i>>

\* majority_power = 0 and the validator_stakes map
BuildRegistry ==
    /\ pc = "registry"
    /\ executed' = Append(executed, "registry")
    /\ majority_power' = 0
    /\ LET e == RegistryCheck(response)
       IN IF e # "none"
          THEN Abort(e) /\ UNCHANGED <<validator_stakes, i>>
          ELSE /\ validator_stakes' = BuildStakes(response)
               /\ i' = 1
               /\ pc' = "loop"
               /\ UNCHANGED result
    /\ UNCHANGED <<inputs, milestone, response, total_power, expected_majority>>

\* one iteration of for i in 0..precommits.len()
VerifyVote ==
    /\ pc = "loop"
    /\ i <= Len(inputs.precommits)
    /\ executed' = Append(executed, "vote")
    /\ LET e == VoteCheck(inputs, validator_stakes, i)
       IN IF e # "none"
          THEN Abort(e) /\ UNCHANGED <<majority_power, i>>
          ELSE /\ majority_power' =
                     Accumulate(majority_power, validator_stakes[inputs.signers[i]])
               /\ i' = i + 1
               /\ UNCHANGED <<pc, result>>
    /\ UNCHANGED <<inputs, milestone, response, validator_stakes, total_power,
                   expected_majority>>

\* the threshold test after the loop
CheckMajority ==
    /\ pc = "loop"
    /\ i > Len(inputs.precommits)
    /\ executed' = Append(executed, "threshold")
    /\ expected_majority' = ExpectedMajority(total_power)
    /\ IF QuorumNotReached(majority_power, expected_majority')
       THEN Abort("QuorumNotReachedError")
       ELSE result' = "ok" /\ pc' = "done"
    /\ UNCHANGED <<inputs, milestone, response, validator_stakes, total_power,
                   majority_power, i>>

Next ==
    \/ VerifyTxData
    \/ VerifyHeader
    \/ VerifyCounts
    \/ ReadState
    \/ BuildRegistry
    \/ VerifyVote
    \/ CheckMajority

Spec == Init /\ [][Next]_vars

\* prove as a function of its inputs: the outcome of the run
RECURSIVE VotesOutcome(_, _, _, _, _)
VotesOutcome(in, stakes, tp, mp, idx) ==
    IF idx > Len(in.precommits)
    THEN IF QuorumNotReached(mp, ExpectedMajority(tp))
         THEN "QuorumNotReachedError"
         ELSE "ok"
    ELSE IF VoteCheck(in, stakes, idx) # "none"
    THEN VoteCheck(in, stakes, idx)
    ELSE VotesOutcome(in, stakes, tp,
                      Accumulate(mp, stakes[in.signers[idx]]), idx + 1)

ProveOutcome(in) ==
    LET r == verify_tx_data(in.tx_data, in.tx_hash)
        sk == in.state_sketch_bytes
    IN IF r.err # "none" THEN r.err
       ELSE IF HeaderCheck(r.milestone, in) # "none"
       THEN HeaderCheck(r.milestone, in)
       ELSE IF CountCheck(in) # "none" THEN CountCheck(in)
       ELSE IF ReadValidatorInfo(sk) # "none" THEN ReadValidatorInfo(sk)
       ELSE IF RegistryCheck(sk.ret) # "none" THEN RegistryCheck(sk.ret)
       ELSE VotesOutcome(in, BuildStakes(sk.ret), sk.ret.total_power, 0, 1)

---------------------------------------------------------------------------
(* The vocabulary of the properties, stated on the inputs alone *)

Sketch == inputs.state_sketch_bytes

\* the recomputed hash of tx_data equals tx_hash and the payload decodes
TxOK ==
    /\ tx_data_hash(inputs.tx_data) = inputs.tx_hash
    /\ inputs.tx_data # "txMalformed"

HeaderOK ==
    /\ inputs.bor_header.number = decode_milestone(inputs.tx_data).end_block
    /\ hash_slow(inputs.bor_header) = decode_milestone(inputs.tx_data).hash

CountOK ==
    /\ Len(inputs.precommits) = Len(inputs.sigs)
    /\ Len(inputs.sigs) = Len(inputs.signers)

StateOK == Sketch.status = "ok"

RegistryOK == Len(Sketch.ret.powers) >= Len(Sketch.ret.signers)

PreLoopOK == TxOK /\ HeaderOK /\ CountOK /\ StateOK /\ RegistryOK

\* the addresses getEncodedValidatorInfo returned
Registered == {Sketch.ret.signers[k] : k \in DOMAIN Sketch.ret.signers}

MemberOK(idx) == inputs.signers[idx] \in Registered

BindingOK(idx) == inputs.precommits[idx].ref = inputs.tx_hash

SigOK(idx) ==
    inputs.sigs[idx] =
        [by |-> inputs.signers[idx], over |-> keccak256(inputs.precommits[idx])]

VoteOK(idx) == MemberOK(idx) /\ BindingOK(idx) /\ SigOK(idx)

VoteIndices == 1 .. Len(inputs.precommits)

AllVotesOK == \A idx \in VoteIndices : VoteOK(idx)

\* idx is the first index at which a per-vote check fails
FirstBad(idx) == ~VoteOK(idx) /\ \A j \in 1 .. idx - 1 : VoteOK(j)

\* the exact sum of the stakes of signers[1 .. k], one term per occurrence
RECURSIVE StakeSum(_)
StakeSum(k) ==
    IF k = 0 THEN 0
    ELSE StakeSum(k - 1) + validator_stakes[inputs.signers[k]]

\* the exact integer ceil(2 * tp / 3)
CeilTwoThirds(tp) == (2 * tp + 2) \div 3

Done == pc = "done"

\* the run got as far as the threshold test
ReachedThreshold == Done /\ result \in {"ok", "QuorumNotReachedError"}

---------------------------------------------------------------------------
(* C1: soundness.  A run that ends without a failure has a matching         *)
(* transaction hash and header, equal lengths, every vote by a registered   *)
(* validator, bound to tx_hash and validly signed, and a stake sum strictly *)
(* above two thirds of total_power.                                         *)
Soundness ==
    (Done /\ result = "ok") =>
        /\ PreLoopOK
        /\ AllVotesOK
        /\ 3 * StakeSum(Len(inputs.signers)) > 2 * total_power

\* no run ends without a failure: the case Soundness speaks of never occurs
NeverSucceeds == result # "ok"

(* C2: completeness.  When every stage before the threshold passes and the  *)
(* stake sum of the signers strictly exceeds ceil(2 * total_power / 3), the *)
(* run succeeds.                                                            *)
QuorumCompleteness ==
    (Done /\ PreLoopOK /\ AllVotesOK
          /\ StakeSum(Len(inputs.signers)) > CeilTwoThirds(total_power))
        => result = "ok"

(* C3: strict threshold.  When every per-vote check passes and the stake    *)
(* sum is at most ceil(2 * total_power / 3), the run fails with             *)
(* QuorumNotReachedError; equality is a failure.                            *)
StrictThreshold ==
    (Done /\ PreLoopOK /\ AllVotesOK
          /\ StakeSum(Len(inputs.signers)) <= CeilTwoThirds(total_power))
        => result = "QuorumNotReachedError"

\* a run whose votes all pass and whose stake sum equals the threshold
StrictThresholdWitness ==
    /\ Done /\ PreLoopOK /\ AllVotesOK
    /\ Len(inputs.signers) > 0
    /\ total_power > 0
    /\ StakeSum(Len(inputs.signers)) = CeilTwoThirds(total_power)
    /\ result = "QuorumNotReachedError"

(* C7: zero votes fail closed.  With the three sequences empty and every    *)
(* earlier stage passing, the run fails with QuorumNotReachedError for      *)
(* every total_power, 0 included.                                           *)
ZeroVotesFail ==
    (Done /\ PreLoopOK /\ Len(inputs.precommits) = 0)
        => result = "QuorumNotReachedError"

\* the degenerate run: no votes and a total power of 0
ZeroVotesWitness ==
    /\ Done /\ PreLoopOK
    /\ Len(inputs.precommits) = 0
    /\ total_power = 0
    /\ expected_majority = 0
    /\ result = "QuorumNotReachedError"

(* C8: stake accumulation.  After the loop has processed the first i - 1    *)
(* votes without failure, majority_power is the exact sum of their signers' *)
(* stakes, one term per occurrence.                                         *)
StakeAccumulation ==
    (pc = "loop") => majority_power = StakeSum(i - 1)

(* C9: threshold arithmetic.  The threshold the run compares against is the *)
(* exact integer ceil(2 * total_power / 3) for every total_power of the     *)
(* unsigned range.                                                          *)
ThresholdExact ==
    ReachedThreshold => expected_majority = CeilTwoThirds(total_power)

---------------------------------------------------------------------------
(* Failure kinds and the stage each belongs to *)

TxFailures == {"DataIntegrityError", "DecodeError"}
StateFailures == {"SketchDecodeError", "StateProofError", "StateCallError"}
VoteFailures ==
    {"UnauthorizedSignerError", "PrecommitMismatchError", "SignatureInvalidError"}

FailStage(r) ==
    CASE r \in TxFailures -> "tx"
      [] r = "HeaderMismatchError" -> "header"
      [] r = "LengthMismatchError" -> "count"
      [] r \in StateFailures -> "state"
      [] r = "RegistryIndexOutOfBounds" -> "registry"
      [] r \in VoteFailures \cup {"VoteIndexOutOfBounds"} -> "vote"
      [] OTHER -> "threshold"

StageOrder == <<"tx", "header", "count", "state", "registry">>

\* the earliest stage, in the fixed order, that does not pass on these inputs;
\* the threshold test when every stage before it passes
DecidingStage ==
    IF ~TxOK THEN "tx"
    ELSE IF ~HeaderOK THEN "header"
    ELSE IF ~CountOK THEN "count"
    ELSE IF ~StateOK THEN "state"
    ELSE IF ~RegistryOK THEN "registry"
    ELSE IF ~AllVotesOK THEN "vote"
    ELSE "threshold"

\* the check that fails first within index idx
FirstBadCheck(idx) ==
    IF ~MemberOK(idx) THEN "UnauthorizedSignerError"
    ELSE IF ~BindingOK(idx) THEN "PrecommitMismatchError"
    ELSE "SignatureInvalidError"

\* the stages run so far are a prefix of the fixed order
ExecutedInOrder ==
    \A k \in DOMAIN executed :
        IF k <= Len(StageOrder) THEN executed[k] = StageOrder[k]
        ELSE IF executed[k] = "vote"
        THEN k - Len(StageOrder) <= Len(inputs.precommits)
        ELSE /\ executed[k] = "threshold"
             /\ k = Len(executed)
             /\ k = Len(StageOrder) + Len(inputs.precommits) + 1

(* C4: membership enforcement.  When the stages before the loop pass and    *)
(* the first index at which a per-vote check fails has a signer outside the *)
(* registry, the run fails with UnauthorizedSignerError, whatever the       *)
(* precommit and the signature at that index are.                           *)
MembershipEnforcement ==
    (Done /\ PreLoopOK
          /\ \E idx \in VoteIndices : FirstBad(idx) /\ ~MemberOK(idx))
        => result = "UnauthorizedSignerError"

\* an unregistered signer with a valid signature over a precommit for another
\* transaction: the membership assertion is the one that fires
MembershipWitness ==
    /\ Done /\ PreLoopOK
    /\ \E idx \in VoteIndices :
          /\ FirstBad(idx) /\ ~MemberOK(idx)
          /\ ~BindingOK(idx) /\ SigOK(idx)
    /\ result = "UnauthorizedSignerError"

(* C5 as stated: a correctly signed precommit of a registered validator at  *)
(* some index, referencing another hash than tx_hash, makes the run fail    *)
(* with PrecommitMismatchError.  Stated here only for runs whose stages     *)
(* before the loop all pass, which is the reading kindest to the claim.     *)
BindingEnforcementAnyIndex ==
    (Done /\ PreLoopOK
          /\ \E idx \in VoteIndices :
                MemberOK(idx) /\ SigOK(idx) /\ ~BindingOK(idx))
        => result = "PrecommitMismatchError"

(* C5 amended: such a precommit at some index means the run never succeeds; *)
(* and when the stages before the loop pass and that index is the first at  *)
(* which a per-vote check fails, the run fails with PrecommitMismatchError, *)
(* whatever the later votes are.                                            *)
BindingEnforcement ==
    /\ (Done /\ TxOK /\ CountOK /\ StateOK
             /\ \E idx \in VoteIndices :
                   MemberOK(idx) /\ SigOK(idx) /\ ~BindingOK(idx))
           => result # "ok"
    /\ (Done /\ PreLoopOK
             /\ \E idx \in VoteIndices :
                   FirstBad(idx) /\ MemberOK(idx) /\ SigOK(idx) /\ ~BindingOK(idx))
           => result = "PrecommitMismatchError"

\* a validly signed vote for another transaction, followed by a good vote
BindingWitness ==
    /\ Done /\ PreLoopOK
    /\ \E idx \in VoteIndices :
          /\ FirstBad(idx) /\ MemberOK(idx) /\ SigOK(idx) /\ ~BindingOK(idx)
          /\ idx < Len(inputs.precommits)
          /\ VoteOK(idx + 1)
    /\ result = "PrecommitMismatchError"

(* C6: fail-fast stage order.  The stages run in the order tx, header,      *)
(* count, state read, registry, votes from index 0 up (membership, binding, *)
(* signature), threshold; the run ends at the earliest stage that fails,    *)
(* with that stage's failure; and no indexed read of sigs or signers is out *)
(* of range.                                                                *)
FailFastOrder ==
    /\ ExecutedInOrder
    /\ result # "VoteIndexOutOfBounds"
    /\ ~Done => result = "running"
    /\ Done =>
        /\ result # "running"
        /\ executed[Len(executed)] = DecidingStage
        /\ FailStage(result) = DecidingStage
        /\ result \in VoteFailures =>
              \E idx \in VoteIndices :
                 /\ FirstBad(idx)
                 /\ result = FirstBadCheck(idx)
                 /\ Len(executed) = Len(StageOrder) + idx

\* unequal lengths and an unreadable state sketch: the run ends at the count
\* check, before sigs[0] could be read
FailFastWitness ==
    /\ Done
    /\ TxOK /\ HeaderOK
    /\ Len(inputs.sigs) < Len(inputs.precommits)
    /\ ~StateOK
    /\ executed = <<"tx", "header", "count">>
    /\ result = "LengthMismatchError"

(* C10: independence from the pass-through hashes.  The outcome of a run is *)
(* the outcome of prove on every input that differs from this one only in   *)
(* bor_block_hash and l1_block_hash.                                        *)
PassThroughIndependence ==
    Done =>
        \A bh \in HeaderHashes, lh \in L1Hashes :
            ProveOutcome([inputs EXCEPT !.bor_block_hash = bh,
                                        !.l1_block_hash = lh]) = result

\* a run that passes the header stage although the claimed header hash is
\* not the hash of the supplied header
PassThroughWitness ==
    /\ Done
    /\ TxOK /\ HeaderOK
    /\ inputs.bor_block_hash # hash_slow(inputs.bor_header)
    /\ FailStage(result) \notin {"tx", "header"}

====
